---- MODULE Spec2Model ----
(***************************************************************************)
(* clip-diff: the command handler of src/src/extension.ts and its patch    *)
(* engine (stripCodeFence, isLikelyUnifiedDiff, getDiffTargetPath,         *)
(* parseHunks, applyDiffPatch, applySingleHunk, scoreSequence,             *)
(* verifyRemovals, normalizeEOL, restoreEOL).                              *)
(*                                                                         *)
(* A text is a sequence of characters, a character is a one-character      *)
(* string.  Line indices are 0-based as in the source; a TLA+ sequence is  *)
(* 1-based, so line i of the source is lines[i + 1].                       *)
(***************************************************************************)
EXTENDS Integers, Sequences, FiniteSets, TLC

LF == "\n"
CR == "\r"
TAB == "\t"

\* \s of the regular expressions, over the characters of the model
WS == {" ", LF, CR, TAB}
\* the line terminators: what "." does not match and what "$" stops before
LineTerm == {LF, CR}
Digits == {"0", "1", "2", "3", "4", "5", "6", "7", "8", "9"}

Min(a, b) == IF a <= b THEN a ELSE b
Max(a, b) == IF a >= b THEN a ELSE b

\* s.slice(from, to) with 0-based from (inclusive) and to (exclusive)
Slice(s, from, to) == SubSeq(s, from + 1, Min(to, Len(s)))
\* s.slice(from)
SliceFrom(s, from) == SubSeq(s, from + 1, Len(s))

\* true when the characters of lit occur in s from 1-based position p on
At(s, p, lit) ==
    /\ p >= 1
    /\ p + Len(lit) - 1 <= Len(s)
    /\ \A k \in 1..Len(lit) : s[p + k - 1] = lit[k]

\* "^" under the m flag: position p is the start of s or follows a "\n"
\* (a lone "\r" is a line terminator for "^" and "$" too)
LineStart(s, p) == p = 1 \/ (p >= 2 /\ p <= Len(s) + 1 /\ s[p - 1] \in LineTerm)

\* "$" under the m flag: position p is past the end or at a line terminator
LineEnd(s, p) == p = Len(s) + 1 \/ (p >= 1 /\ p <= Len(s) /\ s[p] \in LineTerm)

RECURSIVE SplitNL(_)
\* s.split("\n")
SplitNL(s) ==
    IF \A k \in 1..Len(s) : s[k] # LF
    THEN <<s>>
    ELSE LET p == CHOOSE k \in 1..Len(s) :
                      s[k] = LF /\ \A j \in 1..(k - 1) : s[j] # LF
         IN  <<SubSeq(s, 1, p - 1)>> \o SplitNL(SubSeq(s, p + 1, Len(s)))

RECURSIVE JoinNL(_)
\* lines.join("\n")
JoinNL(lines) ==
    IF lines = <<>> THEN <<>>
    ELSE IF Len(lines) = 1 THEN lines[1]
    ELSE lines[1] \o <<LF>> \o JoinNL(Tail(lines))

RECURSIVE normalizeEOL(_)
\* s.replace(/\r\n/g, "\n"): one left-to-right pass, the matches do not overlap
normalizeEOL(s) ==
    IF s = <<>> THEN <<>>
    ELSE IF Len(s) >= 2 /\ s[1] = CR /\ s[2] = LF
         THEN <<LF>> \o normalizeEOL(SubSeq(s, 3, Len(s)))
         ELSE <<s[1]>> \o normalizeEOL(Tail(s))

\* restoreEOL without its CRLF branch
restoreEOLIdentity(s, eol) == s

RECURSIVE restoreEOL(_, _)
\* eol === CRLF ? s.replace(/\n/g, "\r\n") : s
restoreEOL(s, eol) ==
    IF eol # "CRLF" THEN s
    ELSE IF s = <<>> THEN <<>>
    ELSE IF s[1] = LF THEN <<CR, LF>> \o restoreEOL(Tail(s), eol)
    ELSE <<s[1]>> \o restoreEOL(Tail(s), eol)

RECURSIVE TrimStart(_)
TrimStart(s) == IF s # <<>> /\ s[1] \in WS THEN TrimStart(Tail(s)) ELSE s

RECURSIVE TrimEnd(_)
TrimEnd(s) ==
    IF s # <<>> /\ s[Len(s)] \in WS THEN TrimEnd(SubSeq(s, 1, Len(s) - 1)) ELSE s

\* s.trim()
Trim(s) == TrimEnd(TrimStart(s))


(***************************************************************************)
(* Diff helpers                                                            *)
(***************************************************************************)
\* the back quote is written out (the lexer does not take one inside a string)
BackQuote == "BACKQUOTE"
Fence == <<BackQuote, BackQuote, BackQuote>>
FenceDiff == <<"d", "i", "f", "f">>

\* where the opening fence at p ends: after the three back quotes and, when present, "diff"
FenceOpenEnd(s, p) == IF At(s, p + 3, FenceDiff) THEN p + 7 ELSE p + 3

\* the closing fences of an opening fence at p: three back quotes followed by the end of a line
FenceCloses(s, p) ==
    {c \in FenceOpenEnd(s, p)..Len(s) : At(s, c, Fence) /\ LineEnd(s, c + 3)}

\* the opening fences of the fence expression (three back quotes, (?:diff)?, \s*, a lazy group, \s*,
\* three back quotes, $, under the m flag) that have a match
FenceOpens(s) ==
    {p \in 1..Len(s) : LineStart(s, p) /\ At(s, p, Fence) /\ FenceCloses(s, p) # {}}

SetMin(S) == CHOOSE x \in S : \A y \in S : x <= y
SetMax(S) == CHOOSE x \in S : \A y \in S : x >= y

\* stripCodeFence: the text between the first fence pair when there is one,
\* trimmed and with "\r\n" collapsed.  The lazy group ends before the first
\* closing fence; the white space the two \s* take is removed by trim() anyway.
stripCodeFence(s) ==
    IF s = <<>> THEN s
    ELSE IF FenceOpens(s) = {} THEN normalizeEOL(Trim(s))
    ELSE LET p == SetMin(FenceOpens(s))
             c == SetMin(FenceCloses(s, p))
         IN  normalizeEOL(Trim(SubSeq(s, FenceOpenEnd(s, p), c - 1)))

\* the first position from p on that holds a line terminator, or Len(s) + 1
FirstTerm(s, p) ==
    IF \E k \in p..Len(s) : s[k] \in LineTerm
    THEN SetMin({k \in p..Len(s) : s[k] \in LineTerm})
    ELSE Len(s) + 1

AllWS(s, from, to) == \A k \in from..to : s[k] \in WS

\* /^@@\s-/ has no m flag: it is tried at the start of the text only
HunkHeaderAtStart(s) ==
    /\ At(s, 1, <<"@", "@">>)
    /\ Len(s) >= 4
    /\ s[3] \in WS
    /\ s[4] = "-"

\* /^---\s.+\n\+\+\+\s.+/m matches at position p
FileHeaderPairAt(s, p) ==
    /\ LineStart(s, p)
    /\ At(s, p, <<"-", "-", "-">>)
    /\ p + 3 <= Len(s)
    /\ s[p + 3] \in WS
    /\ LET e == FirstTerm(s, p + 4)
       IN  /\ e > p + 4
           /\ At(s, e, <<LF, "+", "+", "+">>)
           /\ e + 4 <= Len(s)
           /\ s[e + 4] \in WS
           /\ e + 5 <= Len(s)
           /\ s[e + 5] \notin LineTerm

isLikelyUnifiedDiff(s) ==
    IF s = <<>> THEN FALSE
    ELSE HunkHeaderAtStart(s) \/ \E p \in 1..Len(s) : FileHeaderPairAt(s, p)

\* "\s+(.+)$" of the +++ line, from position b: the lengths the \s+ can take
PlusWidths(s, b) ==
    {w \in 1..(Len(s) - b + 1) : AllWS(s, b, b + w - 1) /\ FirstTerm(s, b + w) > b + w}

\* "\s+(.+)\n\+\+\+" from position a, followed by the +++ part
MinusWidths(s, a) ==
    {w \in 1..(Len(s) - a + 1) :
        /\ AllWS(s, a, a + w - 1)
        /\ LET e == FirstTerm(s, a + w)
           IN  /\ e > a + w
               /\ At(s, e, <<LF, "+", "+", "+">>)
               /\ PlusWidths(s, e + 4) # {}}

\* the positions where /^---\s+(.+)\n\+\+\+\s+(.+)$/m matches
TargetPathMatches(s) ==
    {p \in 1..Len(s) :
        LineStart(s, p) /\ At(s, p, <<"-", "-", "-">>) /\ MinusWidths(s, p + 3) # {}}

Quotes == {"\"", "'"}

\* s.split(sep)[0] for a separator that is a run of at least n white-space
\* characters (n = 2) or a tab (given as the set of positions where it starts)
UpTo(s, starts) == IF starts = {} THEN s ELSE SubSeq(s, 1, SetMin(starts) - 1)

StripPrefix(s, prefixes) ==
    IF \E x \in prefixes : At(s, 1, x) THEN SubSeq(s, 3, Len(s)) ELSE s

stripHeaderPath(p) ==
    LET q1 == IF p # <<>> /\ p[1] \in Quotes THEN Tail(p) ELSE p
        q2 == IF q1 # <<>> /\ q1[Len(q1)] \in Quotes
              THEN SubSeq(q1, 1, Len(q1) - 1) ELSE q1
        t1 == StripPrefix(q2, {<<"a", "/">>, <<"b", "/">>})
        t2 == UpTo(t1, {k \in 1..Len(t1) : t1[k] = TAB})
    IN  UpTo(t2, {k \in 1..(Len(t2) - 1) : t2[k] \in WS /\ t2[k + 1] \in WS})

\* getDiffTargetPath: the path of the +++ line, or <<>> for undefined (the
\* handler tests the result for truthiness, and "" is falsy like undefined)
getDiffTargetPath(s) ==
    IF TargetPathMatches(s) = {} THEN <<>>
    ELSE LET p  == SetMin(TargetPathMatches(s))
             w1 == SetMax(MinusWidths(s, p + 3))
             b  == FirstTerm(s, p + 3 + w1) + 4
             w2 == SetMax(PlusWidths(s, b))
         IN  stripHeaderPath(Trim(SubSeq(s, b + w2, FirstTerm(s, b + w2) - 1)))

\* fsPath.endsWith(headerPath.replace(/^a\//, "").replace(/^b\//, ""))
PathMatches(fsPath, headerPath) ==
    LET h == StripPrefix(StripPrefix(headerPath, {<<"a", "/">>}), {<<"b", "/">>})
    IN  /\ Len(h) <= Len(fsPath)
        /\ SubSeq(fsPath, Len(fsPath) - Len(h) + 1, Len(fsPath)) = h


(***************************************************************************)
(* Patch engine (unified diff, hunk-by-hunk)                               *)
(***************************************************************************)
\* the value of an optional field that is absent
Undefined == "undefined"

RECURSIVE Number(_)
\* Number(digits) of a non-empty run of decimal digits
Number(d) ==
    IF d = <<>> THEN 0
    ELSE LET last == d[Len(d)]
             v    == CHOOSE n \in 0..9 : SubSeq(<<"0", "1", "2", "3", "4", "5", "6", "7", "8", "9">>, n + 1, n + 1) = <<last>>
         IN  Number(SubSeq(d, 1, Len(d) - 1)) * 10 + v

\* the first position from p on that holds no digit, or Len(s) + 1
DigitsEnd(s, p) ==
    IF \E k \in p..Len(s) : s[k] \notin Digits
    THEN SetMin({k \in p..Len(s) : s[k] \notin Digits})
    ELSE Len(s) + 1

\* where "(?:,(\d+))?" ends when it starts at p
CountEnd(s, p) ==
    IF At(s, p, <<",">>) /\ DigitsEnd(s, p + 1) > p + 1 THEN DigitsEnd(s, p + 1) ELSE p

\* header.match(/^@@ -(\d+)(?:,(\d+))? \+(\d+)(?:,(\d+))? @@/): the groups, or
\* ok = FALSE for null
MatchHeader(header) ==
    LET d1 == DigitsEnd(header, 5)
        c1 == CountEnd(header, d1)
        d2 == DigitsEnd(header, c1 + 2)
        c2 == CountEnd(header, d2)
    IN  IF /\ At(header, 1, <<"@", "@", " ", "-">>)
           /\ d1 > 5
           /\ At(header, c1, <<" ", "+">>)
           /\ d2 > c1 + 2
           /\ At(header, c2, <<" ", "@", "@">>)
        THEN [ok |-> TRUE,
              m1 |-> SubSeq(header, 5, d1 - 1),
              m2 |-> SubSeq(header, d1 + 1, c1 - 1),
              m3 |-> SubSeq(header, c1 + 2, d2 - 1),
              m4 |-> SubSeq(header, d2 + 1, c2 - 1)]
        ELSE [ok |-> FALSE, m1 |-> <<>>, m2 |-> <<>>, m3 |-> <<>>, m4 |-> <<>>]

\* the positions of the matches of /^@@/gm
Markers(s) == {p \in 1..Len(s) : LineStart(s, p) /\ At(s, p, <<"@", "@">>)}

RECURSIVE PartsFrom(_, _)
\* diffText.split(/^@@/gm).slice(1).map(h => "@@" + h), from the marker at p
PartsFrom(s, p) ==
    LET later == {q \in Markers(s) : q > p}
    IN  IF later = {} THEN <<SubSeq(s, p, Len(s))>>
        ELSE <<SubSeq(s, p, SetMin(later) - 1)>> \o PartsFrom(s, SetMin(later))

Parts(s) == IF Markers(s) = {} THEN <<>> ELSE PartsFrom(s, SetMin(Markers(s)))

\* one iteration of the loop of parseHunks: the hunk of a raw block
HunkOf(raw) ==
    LET lines == SplitNL(raw)
        m     == MatchHeader(lines[1])
    IN  [header   |-> lines[1],
         body     |-> Tail(lines),
         oldStart |-> Number(m.m1),
         oldCount |-> IF m.m2 # <<>> THEN Number(m.m2) ELSE Undefined,
         newStart |-> Number(m.m3),
         newCount |-> IF m.m4 # <<>> THEN Number(m.m4) ELSE Undefined]

\* parseHunks that skips a block whose header does not match instead of throwing
parseHunksSkipBad(diffText) ==
    LET parts == Parts(diffText)
        good  == SelectSeq(parts, LAMBDA raw : MatchHeader(SplitNL(raw)[1]).ok)
    IN  [threw |-> FALSE, header |-> <<>>,
         hunks |-> [i \in 1..Len(good) |-> HunkOf(good[i])]]

\* parseHunks: the hunks, or the header it throws "Invalid hunk header" for
\* (the first raw block, in order, whose first line does not match)
parseHunks(diffText) ==
    LET parts == Parts(diffText)
        bad   == {i \in 1..Len(parts) : ~MatchHeader(SplitNL(parts[i])[1]).ok}
    IN  IF bad # {}
        THEN [threw |-> TRUE, header |-> SplitNL(parts[SetMin(bad)])[1], hunks |-> <<>>]
        ELSE [threw |-> FALSE, header |-> <<>>,
              hunks |-> [i \in 1..Len(parts) |-> HunkOf(parts[i])]]

RECURSIVE scoreSequence(_, _)
\* the number of positions below min(window.length, target.length) that agree
scoreSequence(window, target) ==
    IF window = <<>> \/ target = <<>> THEN 0
    ELSE (IF window[1] = target[1] THEN 1 ELSE 0)
         + scoreSequence(Tail(window), Tail(target))

\* a body line counts for the old block (tags " " and "-")
IsOld(line) == line # <<>> /\ line[1] \in {" ", "-"}
\* a body line counts for the new block (tags " " and "+")
IsNew(line) == line # <<>> /\ line[1] \in {" ", "+"}

RECURSIVE BlockOf(_, _)
\* the values (line.slice(1)) of the body lines whose tag is in tags, in order;
\* zero-length body lines are skipped
BlockOf(body, tags) ==
    IF body = <<>> THEN <<>>
    ELSE (IF body[1] # <<>> /\ body[1][1] \in tags THEN <<Tail(body[1])>> ELSE <<>>)
         \o BlockOf(Tail(body), tags)

oldBlockOf(body) == BlockOf(body, {" ", "-"})

\* the new block without the context lines
newBlockOfAdditionsOnly(body) == BlockOf(body, {"+"})

newBlockOf(body) == BlockOf(body, {" ", "+"})

RECURSIVE verifyRemovalsFrom(_, _, _)
\* verifyRemovals: contentLines[idx] is undefined past the end, which differs
\* from every value
verifyRemovalsFrom(contentLines, idx, body) ==
    IF body = <<>> THEN TRUE
    ELSE IF IsOld(body[1])
         THEN IF idx + 1 > Len(contentLines) \/ contentLines[idx + 1] # Tail(body[1])
              THEN FALSE
              ELSE verifyRemovalsFrom(contentLines, idx + 1, Tail(body))
         ELSE verifyRemovalsFrom(contentLines, idx, Tail(body))

\* verifyRemovals that checks nothing
verifyRemovalsSkipped(contentLines, startIdx, body) == TRUE

verifyRemovals(contentLines, startIdx, body) ==
    verifyRemovalsFrom(contentLines, startIdx, body)

RECURSIVE ScanFromKeepLast(_, _, _, _, _)
\* the loop with "score >= bestScore" and without the break
ScanFromKeepLast(contentLines, oldBlock, i, bestIdx, bestScore) ==
    IF i > Len(contentLines) THEN [bestIdx |-> bestIdx, bestScore |-> bestScore]
    ELSE LET score == scoreSequence(Slice(contentLines, i, i + Len(oldBlock)), oldBlock)
         IN  IF score >= bestScore
             THEN ScanFromKeepLast(contentLines, oldBlock, i + 1, i, score)
             ELSE ScanFromKeepLast(contentLines, oldBlock, i + 1, bestIdx, bestScore)

RECURSIVE ScanFrom(_, _, _, _, _)
\* the sliding-window loop from index i on, with the best index and score so far
ScanFrom(contentLines, oldBlock, i, bestIdx, bestScore) ==
    IF i > Len(contentLines) THEN [bestIdx |-> bestIdx, bestScore |-> bestScore]
    ELSE LET score == scoreSequence(Slice(contentLines, i, i + Len(oldBlock)), oldBlock)
         IN  IF score > bestScore
             THEN IF score = Len(oldBlock)
                  THEN [bestIdx |-> i, bestScore |-> score]
                  ELSE ScanFrom(contentLines, oldBlock, i + 1, i, score)
             ELSE ScanFrom(contentLines, oldBlock, i + 1, bestIdx, bestScore)

\* the window search started at the top of the document: for (let i = 0; ...)
BestWindowFromTop(contentLines, oldBlock, startLine) ==
    ScanFrom(contentLines, oldBlock, 0, -1, -1)

\* the window search of applySingleHunk: for (let i = startLine; ...)
BestWindow(contentLines, oldBlock, startLine) ==
    ScanFrom(contentLines, oldBlock, startLine, -1, -1)

\* what applySingleHunk returns
Null(why, bestIdx, content, startLine) ==
    [null |-> TRUE, why |-> why, bestIdx |-> bestIdx,
     content |-> content, lastAppliedLine |-> startLine]
Applied(bestIdx, merged, lastApplied) ==
    [null |-> FALSE, why |-> "applied", bestIdx |-> bestIdx,
     content |-> merged, lastAppliedLine |-> lastApplied]

\* applySingleHunk with "after" cut after the new block's length
applySingleHunkAfterNew(content, hunk, startLine) ==
    LET contentLines == SplitNL(content)
        oldBlock == oldBlockOf(hunk.body)
        newBlock == newBlockOf(hunk.body)
        bestIdx  == BestWindow(contentLines, oldBlock, startLine).bestIdx
    IN  IF bestIdx < 0 THEN Null("noIndex", bestIdx, content, startLine)
        ELSE IF ~verifyRemovals(contentLines, bestIdx, hunk.body)
        THEN Null("verifyRemovals", bestIdx, content, startLine)
        ELSE Applied(bestIdx,
                     JoinNL(Slice(contentLines, 0, bestIdx) \o newBlock
                            \o SliceFrom(contentLines, bestIdx + Len(newBlock))),
                     bestIdx + Len(newBlock))

\* applySingleHunk with the next search start after the old block's length
applySingleHunkCursorOld(content, hunk, startLine) ==
    LET contentLines == SplitNL(content)
        oldBlock == oldBlockOf(hunk.body)
        newBlock == newBlockOf(hunk.body)
        bestIdx  == BestWindow(contentLines, oldBlock, startLine).bestIdx
    IN  IF bestIdx < 0 THEN Null("noIndex", bestIdx, content, startLine)
        ELSE IF ~verifyRemovals(contentLines, bestIdx, hunk.body)
        THEN Null("verifyRemovals", bestIdx, content, startLine)
        ELSE Applied(bestIdx,
                     JoinNL(Slice(contentLines, 0, bestIdx) \o newBlock
                            \o SliceFrom(contentLines, bestIdx + Len(oldBlock))),
                     bestIdx + Len(oldBlock))

\* applySingleHunk: null (with the return that gave it), or the merged content
\* and the next search start
applySingleHunk(content, hunk, startLine) ==
    LET contentLines == SplitNL(content)
        oldBlock == oldBlockOf(hunk.body)
        newBlock == newBlockOf(hunk.body)
        bestIdx  == BestWindow(contentLines, oldBlock, startLine).bestIdx
    IN  IF bestIdx < 0 THEN Null("noIndex", bestIdx, content, startLine)
        ELSE IF ~verifyRemovals(contentLines, bestIdx, hunk.body)
        THEN Null("verifyRemovals", bestIdx, content, startLine)
        ELSE Applied(bestIdx,
                     JoinNL(Slice(contentLines, 0, bestIdx) \o newBlock
                            \o SliceFrom(contentLines, bestIdx + Len(oldBlock))),
                     bestIdx + Len(newBlock))

(***************************************************************************)
(* The inputs of one run of the command                                    *)
(***************************************************************************)
MaxDocLines == 2
MaxDiffLines == 4
MaxHeaderLines == 3

RECURSIVE SeqsUpTo(_, _)
\* the sequences of at most n elements of S
SeqsUpTo(S, n) ==
    IF n = 0 THEN {<<>>}
    ELSE LET shorter == SeqsUpTo(S, n - 1)
         IN  shorter \cup {Append(q, x) : q \in {r \in shorter : Len(r) = n - 1}, x \in S}

HunkHeader == <<"@", "@", " ", "-", "1", ",", "2", " ", "+", "1", " ", "@", "@">>
BadHeader == <<"@", "@", " ", "g", "a", "r", "b", "a", "g", "e", " ", "@", "@">>
MinusFile == <<"-", "-", "-", " ", "a", "/", "f">>
PlusFile == <<"+", "+", "+", " ", "b", "/", "f">>

\* the lines of a clipboard text that is hunks only
HunkLines == {HunkHeader, <<" ", "a">>, <<"-", "a">>, <<"+", "a">>}
FenceOpen == Fence \o FenceDiff
\* the lines of a clipboard text with a fence, file headers, a preamble or a
\* malformed hunk header
HeaderLines == {HunkHeader, BadHeader, MinusFile, PlusFile, FenceOpen, Fence}

Clipboards ==
    {JoinNL(ls) : ls \in SeqsUpTo(HunkLines, MaxDiffLines)}
    \cup {JoinNL(ls) : ls \in SeqsUpTo(HeaderLines, MaxHeaderLines)}

EOLs == {"LF", "CRLF"}

RECURSIVE JoinWith(_, _)
JoinWith(lines, sep) ==
    IF lines = <<>> THEN <<>>
    ELSE IF Len(lines) = 1 THEN lines[1]
    ELSE lines[1] \o sep \o JoinWith(Tail(lines), sep)

\* the texts of the active document: at most MaxDocLines lines, each empty or
\* "a", separated by "\n" or by "\r\n"
DocLines == {<<>>, <<"a">>}
Documents ==
    {JoinWith(ls, sep) : ls \in SeqsUpTo(DocLines, MaxDocLines) \ {<<>>},
                         sep \in {<<LF>>, <<CR, LF>>}}

\* editor.document.uri.fsPath of the active document
FsPaths == {<<"/", "w", "/", "f">>, <<"/", "w", "/", "g">>}

(***************************************************************************)
(* The command handler of activate                                         *)
(***************************************************************************)
VARIABLES
    pc,               \* where the handler is: at an await, in the loop, or done
    clipboard,        \* the text on the clipboard
    stripped,         \* const stripped
    original,         \* const original = doc.getText(), <<>> before it is read
    eol,              \* const eol = doc.eol, "LF" before it is read
    hunks,            \* applyDiffPatch: const hunks
    hunkNo,           \* applyDiffPatch: the number of hunks the loop has taken
    content,          \* applyDiffPatch: let content
    lastAppliedLine,  \* applyDiffPatch: let lastAppliedLine
    lastCall,         \* the last call of applySingleHunk: arguments and result
    patched,          \* const patched
    applied,          \* the texts workspace.applyEdit has put in the document
    message           \* the message shown, [kind |-> "none"] before

vars == <<pc, clipboard, stripped, original, eol, hunks, hunkNo, content,
          lastAppliedLine, lastCall, patched, applied, message>>

NoMessage == [kind |-> "none", text |-> <<>>]
\* no call of applySingleHunk yet
NoCall == [content |-> <<>>, body |-> <<>>, startLine |-> 0,
           res |-> [null |-> FALSE, why |-> "none", bestIdx |-> -1,
                    content |-> <<>>, lastAppliedLine |-> 0]]

Init ==
    /\ pc = "idle"
    /\ clipboard \in Clipboards
    /\ stripped = <<>>
    /\ original = <<>>
    /\ eol = "LF"
    /\ hunks = <<>>
    /\ hunkNo = 0
    /\ content = <<>>
    /\ lastAppliedLine = 0
    /\ lastCall = NoCall
    /\ patched = <<>>
    /\ applied = <<>>
    /\ message = NoMessage

\* the command is run: without an active editor it says so and returns, else
\* it awaits clipboard.readText()
Invoke ==
    /\ pc = "idle"
    /\ \E editor \in BOOLEAN :
        IF ~editor
        THEN /\ message' = [kind |-> "NoActiveEditor", text |-> <<>>]
             /\ pc' = "done"
        ELSE /\ pc' = "readText"
             /\ UNCHANGED message
    /\ UNCHANGED <<clipboard, stripped, original, eol, hunks, hunkNo, content,
                   lastAppliedLine, lastCall, patched, applied>>

\* readText() resolves: the fence is stripped, the pre-check and the path
\* header check run; a path that does not match awaits the modal warning
ClipboardRead ==
    /\ pc = "readText"
    /\ stripped' = stripCodeFence(clipboard)
    /\ IF ~isLikelyUnifiedDiff(stripped')
       THEN /\ message' = [kind |-> "NotAUnifiedDiff", text |-> <<>>]
            /\ pc' = "done"
       ELSE /\ UNCHANGED message
            /\ \E fsPath \in FsPaths :
                LET headerPath == getDiffTargetPath(stripped')
                IN  IF headerPath # <<>> /\ ~PathMatches(fsPath, headerPath)
                    THEN pc' = "warning"
                    ELSE pc' = "dryRun"
    /\ UNCHANGED <<clipboard, original, eol, hunks, hunkNo, content,
                   lastAppliedLine, lastCall, patched, applied>>

\* the modal warning resolves: anything but "Apply" returns
WarningAnswered ==
    /\ pc = "warning"
    /\ \E choice \in {"Apply", "Cancel", Undefined} :
        pc' = IF choice # "Apply" THEN "done" ELSE "dryRun"
    /\ UNCHANGED <<clipboard, stripped, original, eol, hunks, hunkNo, content,
                   lastAppliedLine, lastCall, patched, applied, message>>

\* what the catch block shows for an Error thrown with the given message
Failure(kind, header) == [kind |-> kind, text |-> header]

\* the document and its eol are read and applyDiffPatch starts: both texts are
\* normalized and the diff is parsed; an invalid header throws into the catch
\* block, no hunk returns the document text, else the loop starts
DryRunStart ==
    /\ pc = "dryRun"
    /\ LET diff   == normalizeEOL(stripped)
           parsed == parseHunks(diff)
       IN  \E doc \in Documents, e \in EOLs :
            LET docLF == normalizeEOL(doc)
            IN  /\ original' = doc
                /\ eol' = e
                /\ IF parsed.threw
                   THEN /\ message' = Failure("InvalidHunkHeader", parsed.header)
                        /\ pc' = "done"
                        /\ UNCHANGED <<hunks, content, patched>>
                   ELSE IF Len(parsed.hunks) = 0
                   THEN /\ patched' = restoreEOL(docLF, e)
                        /\ pc' = "compare"
                        /\ UNCHANGED <<hunks, content, message>>
                   ELSE /\ hunks' = parsed.hunks
                        /\ content' = docLF
                        /\ pc' = "hunks"
                        /\ UNCHANGED <<patched, message>>
    /\ lastAppliedLine' = 0
    /\ hunkNo' = 0
    /\ UNCHANGED <<clipboard, stripped, lastCall, applied>>

\* the loop going on to the next hunk when applySingleHunk returns null
ApplyHunkSkipFailed ==
    /\ pc = "hunks"
    /\ hunkNo < Len(hunks)
    /\ LET hunk == hunks[hunkNo + 1]
           res  == applySingleHunk(content, hunk, lastAppliedLine)
       IN  /\ lastCall' = [content |-> content, body |-> hunk.body,
                           startLine |-> lastAppliedLine, res |-> res]
           /\ content' = res.content
           /\ lastAppliedLine' = res.lastAppliedLine
           /\ hunkNo' = hunkNo + 1
           /\ UNCHANGED <<message, pc>>
    /\ UNCHANGED <<clipboard, stripped, original, eol, hunks, patched, applied>>

\* one iteration of the loop of applyDiffPatch
ApplyHunk ==
    /\ pc = "hunks"
    /\ hunkNo < Len(hunks)
    /\ LET hunk == hunks[hunkNo + 1]
           res  == applySingleHunk(content, hunk, lastAppliedLine)
       IN  /\ lastCall' = [content |-> content, body |-> hunk.body,
                           startLine |-> lastAppliedLine, res |-> res]
           /\ IF res.null
              THEN /\ message' = Failure("CouldNotApplyHunk", hunk.header)
                   /\ pc' = "done"
                   /\ UNCHANGED <<content, lastAppliedLine, hunkNo>>
              ELSE /\ content' = res.content
                   /\ lastAppliedLine' = res.lastAppliedLine
                   /\ hunkNo' = hunkNo + 1
                   /\ UNCHANGED <<message, pc>>
    /\ UNCHANGED <<clipboard, stripped, original, eol, hunks, patched, applied>>

\* the loop is over: return restoreEOL(content, eol)
ReturnPatched ==
    /\ pc = "hunks"
    /\ hunkNo = Len(hunks)
    /\ patched' = restoreEOL(content, eol)
    /\ pc' = "compare"
    /\ UNCHANGED <<clipboard, stripped, original, eol, hunks, hunkNo, content,
                   lastAppliedLine, lastCall, applied, message>>

\* if (patched === original): no changes; else the edit is built and
\* workspace.applyEdit awaited
Compare ==
    /\ pc = "compare"
    /\ IF patched = original
       THEN /\ message' = [kind |-> "NoChanges", text |-> <<>>]
            /\ pc' = "done"
       ELSE /\ pc' = "applyEdit"
            /\ UNCHANGED message
    /\ UNCHANGED <<clipboard, stripped, original, eol, hunks, hunkNo, content,
                   lastAppliedLine, lastCall, patched, applied>>

\* applyEdit resolves: true when the whole document was replaced by patched
EditApplied ==
    /\ pc = "applyEdit"
    /\ \E ok \in BOOLEAN :
        IF ok
        THEN /\ applied' = Append(applied, patched)
             /\ message' = [kind |-> "Applied", text |-> <<>>]
        ELSE /\ message' = [kind |-> "FailedToApplyEdit", text |-> <<>>]
             /\ UNCHANGED applied
    /\ pc' = "done"
    /\ UNCHANGED <<clipboard, stripped, original, eol, hunks, hunkNo, content,
                   lastAppliedLine, lastCall, patched>>

Next ==
    \/ Invoke
    \/ ClipboardRead
    \/ WarningAnswered
    \/ DryRunStart
    \/ ApplyHunk
    \/ ReturnPatched
    \/ Compare
    \/ EditApplied

Spec == Init /\ [][Next]_vars


(***************************************************************************)
(* applyDiffPatch on a diff without hunks, over every short text           *)
(***************************************************************************)
MaxTextLen == 4

\* the texts of at most MaxTextLen characters, each "a", "\r" or "\n"
Texts == SeqsUpTo({"a", CR, LF}, MaxTextLen)

InitEOL ==
    /\ pc = "noHunks"
    /\ original \in Texts
    /\ eol \in EOLs
    /\ clipboard = <<>>
    /\ stripped = <<>>
    /\ hunks = <<>>
    /\ hunkNo = 0
    /\ content = <<>>
    /\ lastAppliedLine = 0
    /\ lastCall = NoCall
    /\ patched = <<>>
    /\ applied = <<>>
    /\ message = NoMessage

\* applyDiffPatch(original, "", eol): hunks.length === 0, so it returns
\* restoreEOL(normalizeEOL(documentContent), eol)
PatchWithoutHunks ==
    /\ pc = "noHunks"
    /\ patched' = restoreEOL(normalizeEOL(original), eol)
    /\ pc' = "returned"
    /\ UNCHANGED <<clipboard, stripped, original, eol, hunks, hunkNo, content,
                   lastAppliedLine, lastCall, applied, message>>

NextEOL == PatchWithoutHunks

SpecEOL == InitEOL /\ [][NextEOL]_vars

(***************************************************************************)
(* What the properties below speak of                                      *)
(***************************************************************************)
\* the values of the body lines with a tag in tags, in body order
ValuesTagged(body, tags) ==
    LET sel == SelectSeq(body, LAMBDA l : l # <<>> /\ l[1] \in tags)
    IN  [i \in 1..Len(sel) |-> SubSeq(sel[i], 2, Len(sel[i]))]

\* the old block (context and deletion lines) and the new block (context and
\* addition lines) of a hunk body
OldBlock(body) == ValuesTagged(body, {" ", "-"})
NewBlock(body) == ValuesTagged(body, {" ", "+"})

\* the lines i, i + 1, ... of L (0-based) are the lines of block, one by one
ExactAt(L, i, block) ==
    \A j \in 1..Len(block) : i + j <= Len(L) /\ L[i + j] = block[j]

\* applySingleHunk has been called, and the last call returned a result
Called == lastCall # NoCall
Succeeded == Called /\ ~lastCall.res.null

\* the lines of the document the last call was given, and its blocks
CallLines == SplitNL(lastCall.content)
CallOld == OldBlock(lastCall.body)
CallNew == NewBlock(lastCall.body)

\* applyDiffPatch has been entered
Entered ==
    \/ pc \in {"hunks", "compare", "applyEdit"}
    \/ /\ pc = "done"
       /\ message.kind \in {"InvalidHunkHeader", "CouldNotApplyHunk", "NoChanges",
                            "Applied", "FailedToApplyEdit"}

\* applyDiffPatch has returned a text
Returned ==
    \/ pc \in {"compare", "applyEdit"}
    \/ pc = "done" /\ message.kind \in {"NoChanges", "Applied", "FailedToApplyEdit"}

(***************************************************************************)
(* C1  Removal safety                                                      *)
(***************************************************************************)
\* C1: applySingleHunk returns a result only if the document lines from the
\* chosen index on equal the hunk's context and deletion lines one by one, so
\* the lines it removes are the old block; and when the best-scoring window
\* differs from the old block the hunk is not applicable, applyDiffPatch fails
\* with "Could not apply hunk" and nothing is put in the document.
C1_RemovalSafety ==
    Called =>
        LET m == lastCall.res.bestIdx
        IN  /\ Succeeded =>
                /\ m >= 0
                /\ ExactAt(CallLines, m, CallOld)
                /\ SubSeq(CallLines, m + 1, m + Len(CallOld)) = CallOld
            /\ (m >= 0 /\ ~ExactAt(CallLines, m, CallOld)) =>
                /\ lastCall.res.null
                /\ pc = "done"
                /\ message.kind = "CouldNotApplyHunk"
                /\ applied = <<>>

\* a best window that agrees with the old block in a line and differs in
\* another one (document a, "" against old block a, a) has been refused
C1_Witness ==
    /\ Called
    /\ lastCall.res.null
    /\ lastCall.res.bestIdx >= 0
    /\ \E j \in 1..Len(CallOld) :
        /\ lastCall.res.bestIdx + j <= Len(CallLines)
        /\ CallLines[lastCall.res.bestIdx + j] = CallOld[j]
    /\ ~ExactAt(CallLines, lastCall.res.bestIdx, CallOld)
    /\ message.kind = "CouldNotApplyHunk"

(***************************************************************************)
(* C2  Monotonic search cursor                                             *)
(***************************************************************************)
\* C2: lastAppliedLine starts at 0 and never decreases from one hunk to the
\* next; a hunk is matched at an index at or after the cursor the previous hunk
\* left, which is that hunk's matched index plus the length of its new block.
C2_MonotonicCursor ==
    [][ /\ (pc = "dryRun" /\ pc' = "hunks") => lastAppliedLine' = 0
        /\ (pc = "hunks" /\ hunkNo' = hunkNo + 1) =>
            /\ lastCall'.res.bestIdx >= lastAppliedLine
            /\ lastAppliedLine' >= lastAppliedLine
            /\ lastAppliedLine' =
                   lastCall'.res.bestIdx + Len(NewBlock(hunks[hunkNo + 1].body)) ]_vars

\* the second hunk was matched after the line the first hunk inserted, and that
\* line is the second hunk's old block
C2_Witness ==
    /\ pc = "hunks"
    /\ hunkNo = 2
    /\ Succeeded
    /\ lastCall.startLine >= 1
    /\ lastCall.res.bestIdx >= lastCall.startLine
    /\ OldBlock(hunks[1].body) = <<>>
    /\ NewBlock(hunks[1].body) # <<>>
    /\ NewBlock(hunks[1].body) = OldBlock(hunks[2].body)

(***************************************************************************)
(* C3  Locate-or-fail                                                      *)
(***************************************************************************)
\* the indices from s on where the old block occurs as an exact run of lines
Occurrences(L, block, s) == {i \in s..Len(L) : ExactAt(L, i, block)}

\* C3: when the old block occurs as an exact run of document lines at some
\* index from the search start on, the hunk is applied at the lowest such index
\* (the search start itself for an empty old block); when it occurs nowhere,
\* applySingleHunk returns null and the operation fails with the hunk error.
C3_LocateOrFail ==
    Called =>
        LET occ == Occurrences(CallLines, CallOld, lastCall.startLine)
        IN  IF occ # {}
            THEN /\ ~lastCall.res.null
                 /\ lastCall.res.bestIdx = SetMin(occ)
                 /\ CallOld = <<>> => lastCall.res.bestIdx = lastCall.startLine
            ELSE /\ lastCall.res.null
                 /\ pc = "done"
                 /\ message.kind = "CouldNotApplyHunk"

\* the old block occurs twice from the search start on and the hunk went to
\* the first occurrence
C3_Witness ==
    /\ Succeeded
    /\ CallOld # <<>>
    /\ Cardinality(Occurrences(CallLines, CallOld, lastCall.startLine)) >= 2
    /\ lastCall.res.bestIdx = SetMin(Occurrences(CallLines, CallOld, lastCall.startLine))

(***************************************************************************)
(* C4  Early abort without partial commit                                  *)
(***************************************************************************)
\* C4: when a hunk is not applicable, applyDiffPatch fails with an error that
\* carries that hunk's header, it is the last hunk attempted, no patched text
\* is returned and nothing is put in the document.
C4_EarlyAbort ==
    (Called /\ lastCall.res.null) =>
        /\ pc = "done"
        /\ hunkNo < Len(hunks)
        /\ lastCall.body = hunks[hunkNo + 1].body
        /\ message = [kind |-> "CouldNotApplyHunk", text |-> hunks[hunkNo + 1].header]
        /\ patched = <<>>
        /\ applied = <<>>

\* the second hunk failed after the first one had changed the working text
C4_Witness ==
    /\ Called
    /\ lastCall.res.null
    /\ hunkNo >= 1
    /\ content # normalizeEOL(original)
    /\ message.kind = "CouldNotApplyHunk"


(***************************************************************************)
(* C5  Malformed header rejection                                          *)
(***************************************************************************)
AllDigits(h, from, to) == \A k \in from..to : k <= Len(h) /\ h[k] \in Digits

\* h continues from position p with ",<digits>" or with nothing, and then with
\* the characters of lit; rest(q) is asked of the position after lit
CountThen(h, p, lit, rest(_)) ==
    \/ At(h, p, lit) /\ rest(p + Len(lit))
    \/ /\ At(h, p, <<",">>)
       /\ \E n \in 1..Len(h) :
            /\ AllDigits(h, p + 1, p + n)
            /\ At(h, p + 1 + n, lit)
            /\ rest(p + 1 + n + Len(lit))

\* the header grammar "@@ -<oldStart>[,<oldCount>] +<newStart>[,<newCount>] @@"
\* read off a line from its first character on
FitsHeaderGrammar(h) ==
    /\ At(h, 1, <<"@", "@", " ", "-">>)
    /\ \E a \in 1..Len(h) :
        /\ AllDigits(h, 5, 4 + a)
        /\ CountThen(h, 5 + a, <<" ", "+">>,
              LAMBDA q : \E c \in 1..Len(h) :
                  /\ AllDigits(h, q, q + c - 1)
                  /\ CountThen(h, q + c, <<" ", "@", "@">>, LAMBDA r : TRUE))

\* the lines of the diff that start a block (they begin with "@@") and the ones
\* among them that do not fit the grammar
BlockLines(diff) ==
    LET lines == SplitNL(diff)
    IN  {i \in 1..Len(lines) : At(lines[i], 1, <<"@", "@">>)}
BadBlockLines(diff) ==
    LET lines == SplitNL(diff)
    IN  {i \in BlockLines(diff) : ~FitsHeaderGrammar(lines[i])}

\* C5: if a block introduced by a line-start "@@" has a first line that does
\* not fit the header grammar, applyDiffPatch fails with the invalid-header
\* error carrying that line, before any hunk has been applied, wherever the bad
\* block stands among the valid ones.
C5_MalformedHeaderRejected ==
    LET diff == normalizeEOL(stripped)
        bad  == BadBlockLines(diff)
    IN  (Entered /\ bad # {}) =>
            /\ pc = "done"
            /\ message = [kind |-> "InvalidHunkHeader",
                          text |-> SplitNL(diff)[SetMin(bad)]]
            /\ hunks = <<>>
            /\ hunkNo = 0
            /\ lastCall = NoCall
            /\ content = <<>>
            /\ patched = <<>>
            /\ applied = <<>>

\* a malformed header after a valid hunk has failed the operation
C5_Witness ==
    LET diff == normalizeEOL(stripped)
    IN  /\ Entered
        /\ message.kind = "InvalidHunkHeader"
        /\ BadBlockLines(diff) # {}
        /\ \E i \in BlockLines(diff) \ BadBlockLines(diff) : i < SetMin(BadBlockLines(diff))

(***************************************************************************)
(* C6  Line-ending round trip                                              *)
(***************************************************************************)
EveryLFAfterCR(t) == \A k \in 1..Len(t) : t[k] = LF => (k > 1 /\ t[k - 1] = CR)
HasCRLF(t) == \E k \in 1..(Len(t) - 1) : t[k] = CR /\ t[k + 1] = LF
HasCRCRLF(t) == \E k \in 1..(Len(t) - 2) : t[k] = CR /\ t[k + 1] = CR /\ t[k + 2] = LF

\* the characters of t that are no line-ending character, in order
Letters(t) == SelectSeq(t, LAMBDA ch : ch \notin {CR, LF})
\* the number of line feeds of t
LineFeeds(t) == Cardinality({k \in 1..Len(t) : t[k] = LF})

\* C6 as claimed: restoreEOL(normalizeEOL(t), c) has every line ending in c's
\* form: for CRLF every "\n" is preceded by "\r", for LF there is no "\r\n".
C6_Original ==
    pc = "returned" =>
        /\ eol = "CRLF" => EveryLFAfterCR(patched)
        /\ eol = "LF" => ~HasCRLF(patched)

\* C6 amended: for CRLF every "\n" of the result is preceded by "\r"; for LF
\* the result has no "\r\n" unless t has a "\r" right before a "\r\n"; and the
\* result has the lines of t: the same characters between as many line feeds.
C6_RoundTrip ==
    pc = "returned" =>
        /\ eol = "CRLF" => EveryLFAfterCR(patched)
        /\ (eol = "LF" /\ ~HasCRCRLF(original)) => ~HasCRLF(patched)
        /\ (eol = "LF" /\ HasCRCRLF(original)) => HasCRLF(patched)
        /\ Letters(patched) = Letters(original)
        /\ LineFeeds(patched) = LineFeeds(original)

\* a text with a "\r\n", a lone "\n" and a lone "\r" has been converted to CRLF
C6_Witness ==
    /\ pc = "returned"
    /\ eol = "CRLF"
    /\ HasCRLF(original)
    /\ ~EveryLFAfterCR(original)
    /\ \E k \in 1..Len(original) :
        original[k] = CR /\ (k = Len(original) \/ original[k + 1] # LF)
    /\ patched # original

(***************************************************************************)
(* C7  Zero-net-effect patches                                             *)
(***************************************************************************)
\* no hunk, or hunks whose new block is their old block
ZeroNetEffect == \A i \in 1..Len(hunks) : NewBlock(hunks[i].body) = OldBlock(hunks[i].body)

\* every line ending of t is in the form of the convention e
InConvention(t, e) == IF e = "CRLF" THEN EveryLFAfterCR(t) ELSE ~HasCRLF(t)

\* the handler has reported "no changes" or is about to, and has not edited
NoChangesOutcome ==
    /\ patched = original
    /\ pc # "applyEdit"
    /\ applied = <<>>
    /\ pc = "done" => message.kind = "NoChanges"

\* C7 as claimed: for every document text, a patch without hunks or with
\* zero-net-effect hunks that all apply returns the document text itself and
\* the handler reports "no changes" without an edit.
C7_Original == (Returned /\ ZeroNetEffect) => NoChangesOutcome

\* C7 amended: the same for every document text whose line endings are all in
\* the form of the document's eol.
C7_ZeroNetEffectIsNoOp ==
    (Returned /\ ZeroNetEffect /\ InConvention(original, eol)) => NoChangesOutcome

\* a context-only hunk was applied to a two-line CRLF document and the handler
\* reported "no changes"
C7_Witness ==
    /\ pc = "done"
    /\ message.kind = "NoChanges"
    /\ Len(hunks) >= 1
    /\ ZeroNetEffect
    /\ OldBlock(hunks[1].body) # <<>>
    /\ eol = "CRLF"
    /\ HasCRLF(original)

(***************************************************************************)
(* C8  Diff detection                                                      *)
(***************************************************************************)
\* a line of s begins with "@@ -"
HasHunkHeaderLine(s) ==
    \E i \in 1..Len(SplitNL(s)) : At(SplitNL(s)[i], 1, <<"@", "@", " ", "-">>)

\* a "--- <path>" line is immediately followed by a "+++ <path>" line
HasFileHeaderPair(s) ==
    \E i \in 1..(Len(SplitNL(s)) - 1) :
        /\ At(SplitNL(s)[i], 1, <<"-", "-", "-", " ">>)
        /\ Len(SplitNL(s)[i]) >= 5
        /\ At(SplitNL(s)[i + 1], 1, <<"+", "+", "+", " ">>)
        /\ Len(SplitNL(s)[i + 1]) >= 5

\* the pre-check has run on stripped, and what it said
PreChecked == pc \notin {"idle", "readText"} /\ message.kind # "NoActiveEditor"
Accepted == message.kind # "NotAUnifiedDiff"

\* C8: the pre-check accepts every text with a line that begins with "@@ -" and
\* every text with a "---" line followed by a "+++" line, it rejects the empty
\* text, and it accepts every text parseHunks extracts a valid hunk from.
C8_DiffDetection ==
    PreChecked =>
        /\ HasHunkHeaderLine(stripped) => Accepted
        /\ HasFileHeaderPair(stripped) => Accepted
        /\ stripped = <<>> => ~Accepted
        /\ (BlockLines(stripped) # {} /\ BadBlockLines(stripped) = {}) => Accepted

(***************************************************************************)
(* C9  Splice and frame                                                    *)
(***************************************************************************)
\* L[0..m) followed by the new block followed by L[m + |O|..end)
Spliced ==
    SubSeq(CallLines, 1, lastCall.res.bestIdx) \o CallNew
    \o SubSeq(CallLines, lastCall.res.bestIdx + Len(CallOld) + 1, Len(CallLines))

\* C9 as claimed: the lines of the result are exactly L[0..m), N, L[m+|O|..end),
\* their number is |L| - |O| + |N|, and the returned cursor is m + |N|.
C9_Original ==
    Succeeded =>
        /\ SplitNL(lastCall.res.content) = Spliced
        /\ Len(SplitNL(lastCall.res.content)) = Len(CallLines) - Len(CallOld) + Len(CallNew)
        /\ lastCall.res.lastAppliedLine = lastCall.res.bestIdx + Len(CallNew)

\* C9 amended: the result is L[0..m), N, L[m+|O|..end) joined by "\n" and the
\* returned cursor is m + |N|; the lines of the result are exactly that
\* sequence, |L| - |O| + |N| of them, unless the sequence is empty (the hunk
\* removes every line and adds none): the result is then the empty text, which
\* is one empty line.
C9_SpliceAndFrame ==
    Succeeded =>
        /\ lastCall.res.content = JoinNL(Spliced)
        /\ lastCall.res.lastAppliedLine = lastCall.res.bestIdx + Len(CallNew)
        /\ Len(Spliced) = Len(CallLines) - Len(CallOld) + Len(CallNew)
        /\ Spliced # <<>> => SplitNL(lastCall.res.content) = Spliced
        /\ Spliced = <<>> =>
            /\ lastCall.res.content = <<>>
            /\ SplitNL(lastCall.res.content) = <<<<>>>>
        /\ pc = "hunks" =>
            /\ content = lastCall.res.content
            /\ lastAppliedLine = lastCall.res.lastAppliedLine

\* an addition went in after a kept first line and before a kept last line
C9_Witness ==
    /\ Succeeded
    /\ lastCall.res.bestIdx >= 1
    /\ Len(CallNew) > Len(CallOld)
    /\ lastCall.res.bestIdx + Len(CallOld) < Len(CallLines)
    /\ SplitNL(lastCall.res.content) = Spliced

(***************************************************************************)
(* C10  Cursor stays in range                                              *)
(***************************************************************************)
\* C10: during applyDiffPatch 0 <= lastAppliedLine <= the number of lines of
\* the working text, so the window search always has a candidate index, its
\* "no index" return is never taken, and a hunk is only ever refused by
\* verifyRemovals.
C10_CursorInRange ==
    /\ pc = "hunks" =>
        /\ 0 <= lastAppliedLine
        /\ lastAppliedLine <= Len(SplitNL(content))
    /\ Called =>
        /\ lastCall.startLine <= Len(CallLines)
        /\ lastCall.res.bestIdx >= 0
        /\ lastCall.res.why # "noIndex"
        /\ lastCall.res.null => lastCall.res.why = "verifyRemovals"

\* the cursor stands right after the last line and the next hunk is searched
\* from there
C10_Witness ==
    /\ Called
    /\ lastCall.startLine = Len(CallLines)
    /\ lastCall.startLine >= 2
    /\ lastCall.res.bestIdx = lastCall.startLine

====
